---- MODULE Spec2Model ----
(***************************************************************************)
(* Model of watershed_monitoring/tsa/trend.py: the Mann-Kendall score      *)
(* engine (mk_score, mk_score_variance), the normalizer (mk_z), the        *)
(* seasonal test (seasonal_kendall) and the Monte-Carlo sample-size search *)
(* (check_num_samples).                                                    *)
(*                                                                         *)
(* Numbers.  Probabilities (P_d, power, tol) are floats in the source; the *)
(* model keeps them as integers in units of 1/Den, so that comparisons and *)
(* absolute differences are exact.  Var(S) is a rational num/den (the      *)
(* source divides by 18 with true division).  Z is kept symbolically as    *)
(* num/sqrt(rad) together with the IEEE class numpy returns (finite, inf,  *)
(* nan).                                                                   *)
(*                                                                         *)
(* The Monte-Carlo batch of a cycle (lines 622-628) calls the trend test   *)
(* mk_test, which lives outside this file; the model takes the number of   *)
(* detections of a batch as an input in 0..num_iter.                       *)
(***************************************************************************)
EXTENDS Integers, Sequences, FiniteSets, TLC

(* ------------------------------ bounds --------------------------------- *)
\* num_iter: the number of simulated series per cycle.
NumIter == 2
\* Largest tol, in units of 1/Den.
MaxTol == 2
\* Largest initial n.
MaxN0 == 3
\* Largest num_cycles.
MaxCycles == 4
\* Largest m.
MaxM == 2
\* Series: length 0..MaxLen over the values 1..MaxVal.
MaxLen == 6
MaxVal == 3
\* seasonal_kendall: period in 1..MaxPeriod.
MaxPeriod == 3
\* mk_z: S in -MaxS..MaxS, Var(S) in {k/18 : k in -MaxVarNum..MaxVarNum}.
MaxS == 8
MaxVarNum == 6

\* Probabilities are multiples of 1/Den; P_d = count/num_iter is a multiple
\* of 2/Den, so power and tol can also fall between two values of P_d.
Den == 2 * NumIter

VARIABLES
  \* check_num_samples
  pc, n, power, tol, num_cycles, m, P_d, cycle_num,
  min_diff_P_d_and_power, best_P_d, max_n, min_n, max_n_cycle, min_n_cycle,
  ret,
  \* history[k]: the n that cycle k ran with, the P_d it computed, whether it
  \* returned at the closeness test, and best_P_d as the cycle left it
  history,
  \* the score engine, the normalizer and the seasonal test
  x, s, var_s, call

cnsVars == <<pc, n, power, tol, num_cycles, m, P_d, cycle_num,
             min_diff_P_d_and_power, best_P_d, max_n, min_n, max_n_cycle,
             min_n_cycle, ret, history>>
trendVars == <<x, s, var_s, call>>
vars == <<cnsVars, trendVars>>

(* ------------------------------ helpers -------------------------------- *)
Abs(a) == IF a < 0 THEN -a ELSE a

Sign(a) == IF a > 0 THEN 1 ELSE IF a < 0 THEN -1 ELSE 0

\* A Python function that ends without a return statement returns None.
None == <<>>
Returned(v) == <<v>>

\* A rational number num/den, den > 0.
Rat(num, den) == [num |-> num, den |-> den]
RatEq(a, b) == a.num * b.den = b.num * a.den
RatAdd(a, b) == Rat(a.num * b.den + b.num * a.den, a.den * b.den)

RECURSIVE SumSeq(_)
SumSeq(q) == IF q = <<>> THEN 0 ELSE Head(q) + SumSeq(Tail(q))

(* ========================= check_num_samples =========================== *)

\* P_d = float(count_of_trend_detections) / num_iter, in units of 1/Den.
DetectionFraction(count) == (count * Den) \div NumIter

\* WhileCond without the cap on the number of cycles.
WhileCond_NoCap(Pd, pw, tl, cyc, ncyc) == Abs(Pd - pw) > tl

\* while abs(P_d - power) > tol and cycle_num < num_cycles
WhileCond(Pd, pw, tl, cyc, ncyc) == Abs(Pd - pw) > tl /\ cyc < ncyc

\* if abs(P_d - power) < tol: return n
IsClose(Pd, pw, tl) == Abs(Pd - pw) < tl

\* IsCloser with the comparison turned round.
IsCloser_Reversed(md, Pd, pw) == md < Abs(Pd - pw)

\* if min_diff_P_d_and_power > abs(P_d - power)
IsCloser(md, Pd, pw) == md > Abs(Pd - pw)

\* UpdatesMax without the test that P_d is the best estimate.
UpdatesMax_Any(nn, mx, best, Pd, tl) == nn > mx

\* The first two arms of the if/elif chain at lines 643-648.
UpdatesMax(nn, mx, best, Pd, tl) == nn > mx /\ Abs(best - Pd) < tl
UpdatesMin(nn, mn, best, Pd, tl) == nn < mn /\ Abs(best - Pd) < tl

\* IsCycling looking back one cycle too many.
IsCycling_Strict(nn, cyc, mx, mxc, mn, mnc, mm) ==
  \/ (Abs(mx - nn) = 0 /\ cyc - mxc > mm)
  \/ (Abs(mn - nn) = 0 /\ cyc - mnc > mm)

\* The condition of the last arm of the chain, lines 652-655.
IsCycling(nn, cyc, mx, mxc, mn, mnc, mm) ==
  \/ (Abs(mx - nn) = 0 /\ cyc - mxc >= mm)
  \/ (Abs(mn - nn) = 0 /\ cyc - mnc >= mm)

\* StepN that also increments when P_d equals power.
StepN_Le(nn, Pd, pw) == IF Pd <= pw THEN nn + 1 ELSE nn - 1

\* if P_d < power: n += 1 else: n -= 1
StepN(nn, Pd, pw) == IF Pd < pw THEN nn + 1 ELSE nn - 1

InitCNS ==
  /\ pc = "while"
  /\ n \in 1..MaxN0
  /\ \E beta \in 0..Den : power = Den - beta
  /\ tol \in 0..MaxTol
  /\ num_cycles \in 0..MaxCycles
  /\ m \in 0..MaxM
  /\ P_d = 0
  /\ cycle_num = 0
  /\ min_diff_P_d_and_power = Abs(P_d - power)
  /\ best_P_d = P_d
  /\ max_n = n
  /\ min_n = n
  /\ max_n_cycle = 1
  /\ min_n_cycle = 1
  /\ ret = None
  /\ history = <<>>

\* One pass through the body of the while loop, lines 617-673, for a batch
\* in which `count` of the num_iter simulated series were flagged.
Cycle(count) ==
  /\ pc = "while"
  /\ WhileCond(P_d, power, tol, cycle_num, num_cycles)
  /\ LET cyc  == cycle_num + 1
         Pd   == DetectionFraction(count)
         d    == Abs(Pd - power)
         closer == IsCloser(min_diff_P_d_and_power, Pd, power)
         md   == IF closer THEN d ELSE min_diff_P_d_and_power
         best == IF closer THEN Pd ELSE best_P_d
         upMax == UpdatesMax(n, max_n, best, Pd, tol)
         upMin == ~upMax /\ UpdatesMin(n, min_n, best, Pd, tol)
         cycling == /\ ~upMax
                    /\ ~upMin
                    /\ IsCycling(n, cyc, max_n, max_n_cycle, min_n, min_n_cycle, m)
         n1   == StepN(n, Pd, power)
     IN  /\ cycle_num' = cyc
         /\ P_d' = Pd
         /\ history' = Append(history,
                [n |-> n, P_d |-> Pd, close |-> IsClose(Pd, power, tol),
                 best |-> IF IsClose(Pd, power, tol) THEN best_P_d ELSE best])
         /\ IF IsClose(Pd, power, tol)
            THEN /\ pc' = "return_close"
                 /\ ret' = Returned(n)
                 /\ UNCHANGED <<n, min_diff_P_d_and_power, best_P_d, max_n,
                                min_n, max_n_cycle, min_n_cycle>>
            ELSE /\ min_diff_P_d_and_power' = md
                 /\ best_P_d' = best
                 /\ max_n' = IF upMax THEN n ELSE max_n
                 /\ max_n_cycle' = IF upMax THEN cyc ELSE max_n_cycle
                 /\ min_n' = IF upMin THEN n ELSE min_n
                 /\ min_n_cycle' = IF upMin THEN cyc ELSE min_n_cycle
                 /\ IF cycling
                    THEN /\ pc' = "return_converged"
                         /\ ret' = Returned(n)
                         /\ n' = n
                    ELSE /\ n' = n1
                         /\ pc' = IF n1 = 0 /\ ~(Pd < power) THEN "raise" ELSE "while"
                         /\ ret' = ret
  /\ UNCHANGED <<power, tol, num_cycles, m>>
  /\ UNCHANGED trendVars

\* The loop condition is false: control leaves the loop and reaches the end
\* of the function body, which holds no return statement.
LoopExit ==
  /\ pc = "while"
  /\ ~WhileCond(P_d, power, tol, cycle_num, num_cycles)
  /\ pc' = "end"
  /\ ret' = None
  /\ UNCHANGED <<n, power, tol, num_cycles, m, P_d, cycle_num,
                 min_diff_P_d_and_power, best_P_d, max_n, min_n, max_n_cycle,
                 min_n_cycle, history>>
  /\ UNCHANGED trendVars

(* ============================ score engine ============================= *)

Values == 1..MaxVal

\* The series handed to the score engine: numpy arrays of length 0..MaxLen.
Series == UNION {[1..len -> Values] : len \in 0..MaxLen}

\* ScoreTerm with the difference taken the other way round.
ScoreTerm_Reversed(xx, j) == SumSeq([i \in 1..(j - 1) |-> Sign(xx[i] - xx[j])])

\* np.sum(np.sign(x[j] - x[0:j])); j counts from 1 here, from 0 in the source.
ScoreTerm(xx, j) == SumSeq([i \in 1..(j - 1) |-> Sign(xx[j] - xx[i])])

\* for j in np.arange(1,n): s += ...
RECURSIVE ScoreLoop(_, _, _)
ScoreLoop(xx, j, acc) ==
  IF j > Len(xx) THEN acc ELSE ScoreLoop(xx, j + 1, acc + ScoreTerm(xx, j))

mk_score(xx) == ScoreLoop(xx, 2, 0)

\* np.unique: the distinct values, in increasing order.
RECURSIVE SortedSeq(_)
SortedSeq(S) ==
  IF S = {} THEN <<>>
  ELSE LET lo == CHOOSE v \in S : \A w \in S : v <= w
       IN  <<lo>> \o SortedSeq(S \ {lo})

np_unique(xx) == SortedSeq({xx[i] : i \in DOMAIN xx})

\* sum(x == unique_x[i])
CountEq(xx, v) == Cardinality({i \in DOMAIN xx : xx[i] = v})

\* TieTerm with the sign of the constant flipped.
TieTerm_Minus(q) == q * (q - 1) * (2 * q - 5)

\* tp*(tp-1)*(2*tp+5), for one tie group
TieTerm(q) == q * (q - 1) * (2 * q + 5)

\* mk_score_variance that never takes the branch for ties.
mk_score_variance_NoTies(xx) == Rat(Len(xx) * (Len(xx) - 1) * (2 * Len(xx) + 5), 18)

mk_score_variance(xx) ==
  LET nn == Len(xx)
      unique_x == np_unique(xx)
      g == Len(unique_x)
  IN  IF nn = g
      THEN Rat(nn * (nn - 1) * (2 * nn + 5), 18)
      ELSE LET tp == [i \in 1..g |-> CountEq(xx, unique_x[i])]
           IN  Rat(nn * (nn - 1) * (2 * nn + 5)
                     - SumSeq([i \in 1..g |-> TieTerm(tp[i])]), 18)

(* ============================= normalizer ============================== *)

\* A value of Z: num/sqrt(rad) when finite, the sign in num when infinite.
ZFinite(num, rad) == [kind |-> "finite", num |-> num, rad |-> rad]
ZInf(sg) == [kind |-> "inf", num |-> sg, rad |-> Rat(1, 1)]
ZNaN == [kind |-> "nan", num |-> 0, rad |-> Rat(1, 1)]
\* The int 0 of the else branch.
ZZero == ZFinite(0, Rat(1, 1))

\* num / np.sqrt(v) under numpy's default error state: sqrt of a negative
\* number is nan, a nonzero number over 0.0 is +-inf, 0 over 0.0 is nan; each
\* only warns.
DivBySqrt(num, v) ==
  IF v.num < 0 THEN ZNaN
  ELSE IF v.num = 0 THEN (IF num = 0 THEN ZNaN ELSE ZInf(Sign(num)))
  ELSE ZFinite(num, v)

\* mk_z without the continuity correction.
mk_z_NoCorrection(ss, vs) ==
  IF ss > 0 THEN DivBySqrt(ss, vs)
  ELSE IF ss < 0 THEN DivBySqrt(ss, vs)
  ELSE ZZero

mk_z(ss, vs) ==
  IF ss > 0 THEN DivBySqrt(ss - 1, vs)
  ELSE IF ss < 0 THEN DivBySqrt(ss + 1, vs)
  ELSE ZZero

(* ============================ seasonal test ============================ *)

\* A local name that no assignment has bound yet.
Unbound == <<>>

\* x[start::step], start counted from 0.
Slice(xx, start, step) ==
  LET idx == {i \in 1..Len(xx) : i - 1 >= start /\ (i - 1 - start) % step = 0}
  IN  [k \in 1..Cardinality(idx) |-> xx[start + 1 + (k - 1) * step]]

\* The body of the loop over the seasons, lines 434-436, on the locals loc.
\* s is the array np.zeros(period), so s += ... adds to each element; var_s
\* is read by += before anything was assigned to it.
SeasonBody(xx, period, loc) ==
  LET x_season == Slice(xx, period, period)
      s1 == [k \in 1..period |-> loc.s[k] + mk_score(xx)]
  IN  IF loc.var_s = Unbound
      THEN [s |-> s1, var_s |-> Unbound, exc |-> "UnboundLocalError"]
      ELSE [s |-> s1,
            var_s |-> <<RatAdd(loc.var_s[1], mk_score_variance(xx))>>,
            exc |-> ""]

RECURSIVE SeasonLoop(_, _, _, _)
SeasonLoop(xx, period, season, loc) ==
  IF season >= period \/ loc.exc # "" THEN loc
  ELSE SeasonLoop(xx, period, season + 1, SeasonBody(xx, period, loc))

\* seasonal_kendall up to the call of mk_z: what it hands to mk_z, or the
\* exception that ends it.
seasonal_kendall(xx, period) ==
  LET loc == SeasonLoop(xx, period, 0,
                        [s |-> [k \in 1..period |-> 0], var_s |-> Unbound, exc |-> ""])
  IN  IF loc.exc # "" THEN [handed |-> None, exc |-> loc.exc]
      ELSE IF loc.var_s = Unbound
           THEN [handed |-> None, exc |-> "UnboundLocalError"]
           ELSE [handed |-> <<loc.s, loc.var_s[1]>>, exc |-> ""]

(* ------------------- calls of the pure functions ----------------------- *)

\* Each behaviour applies one function to the inputs drawn by the initial
\* state; call records which one, and what came of it.

NoCall == [op |-> "none", period |-> 0, ret |-> None, handed |-> None, exc |-> ""]

CallMkScore ==
  /\ call = NoCall
  /\ call' = [NoCall EXCEPT !.op = "mk_score", !.ret = Returned(mk_score(x))]
  /\ UNCHANGED <<x, s, var_s>>
  /\ UNCHANGED cnsVars

CallMkScoreVariance ==
  /\ call = NoCall
  /\ call' = [NoCall EXCEPT !.op = "mk_score_variance",
                            !.ret = Returned(mk_score_variance(x))]
  /\ UNCHANGED <<x, s, var_s>>
  /\ UNCHANGED cnsVars

CallSeasonalKendall(period) ==
  /\ call = NoCall
  /\ LET r == seasonal_kendall(x, period)
     IN  call' = [NoCall EXCEPT !.op = "seasonal_kendall", !.period = period,
                                !.handed = r.handed, !.exc = r.exc]
  /\ UNCHANGED <<x, s, var_s>>
  /\ UNCHANGED cnsVars

CallMkZ ==
  /\ call = NoCall
  /\ call' = [NoCall EXCEPT !.op = "mk_z", !.ret = Returned(mk_z(s, var_s))]
  /\ UNCHANGED <<x, s, var_s>>
  /\ UNCHANGED cnsVars

\* No call of check_num_samples is in progress.
CNSIdle ==
  /\ pc = "idle"
  /\ n = 0 /\ power = 0 /\ tol = 0 /\ num_cycles = 0 /\ m = 0
  /\ P_d = 0 /\ cycle_num = 0 /\ min_diff_P_d_and_power = 0 /\ best_P_d = 0
  /\ max_n = 0 /\ min_n = 0 /\ max_n_cycle = 0 /\ min_n_cycle = 0
  /\ ret = None
  /\ history = <<>>

\* The score engine and the seasonal test, on every series within the bounds.
InitScore ==
  /\ CNSIdle
  /\ x \in Series
  /\ s = 0
  /\ var_s = Rat(0, 18)
  /\ call = NoCall

NextScore ==
  \/ CallMkScore
  \/ CallMkScoreVariance
  \/ \E period \in 1..MaxPeriod : CallSeasonalKendall(period)

SpecScore == InitScore /\ [][NextScore]_vars

\* The normalizer, on every (S, Var(S)) within the bounds.
InitZ ==
  /\ CNSIdle
  /\ x = <<>>
  /\ s \in (-MaxS)..MaxS
  /\ var_s \in {Rat(k, 18) : k \in (-MaxVarNum)..MaxVarNum}
  /\ call = NoCall

NextZ == CallMkZ

SpecZ == InitZ /\ [][NextZ]_vars

TrendIdle ==
  /\ x = <<>>
  /\ s = 0
  /\ var_s = Rat(0, 18)
  /\ call = NoCall

Init == InitCNS /\ TrendIdle

Next ==
  \/ \E count \in 0..NumIter : Cycle(count)
  \/ LoopExit

Spec == Init /\ [][Next]_vars

\* The interpreter runs the call to its end: a step that can be taken is taken.
FairSpec == Spec /\ WF_vars(Next)

(* ---------------------- claims: check_num_samples --------------------- *)

\* A step of the loop body: the only place where cycle_num changes.
IsCycleStep == cycle_num' = cycle_num + 1

\* C1 (as stated): whenever a cycle ends with |P_d - power| <= tol, the
\* boundary |P_d - power| = tol included, the call returns in that cycle, and
\* returns the n the cycle used, n itself left as it was.
C1_ReturnsWithinTol ==
  [][(IsCycleStep /\ Abs(P_d' - power) <= tol)
       => (/\ pc' \in {"return_close", "return_converged"}
           /\ ret' = Returned(n)
           /\ n' = n)]_vars

\* C2 (as stated): when the loop ends because cycle_num reached num_cycles
\* after at least one cycle, with P_d still further than tol from power, the call returns the current
\* n, a positive integer, and not None.
C2_ExhaustionReturnsN ==
  (pc = "end" /\ cycle_num >= 1 /\ cycle_num >= num_cycles
     /\ Abs(P_d - power) > tol)
    => (ret = Returned(n) /\ n > 0)

\* C3: cycle_num never exceeds num_cycles, and every call ends: it leaves the
\* loop by a return, by the raise, or by reaching the end of the function.
C3_Terminates == [](cycle_num <= num_cycles) /\ <>(pc # "while")

\* C3 witness: a call that ran all of its (at least three) cycles without
\* P_d ever coming within tol of power, and ended.
C3_Witness ==
  /\ pc = "end"
  /\ num_cycles >= 3
  /\ cycle_num = num_cycles
  /\ Abs(P_d - power) > tol

\* C4: a cycle runs only with n >= 1; a cycle that does not return moves n by
\* exactly one, up when P_d < power and down otherwise, and it raises exactly
\* when that leaves n = 0.
C4_StepRule ==
  [][IsCycleStep
       => (/\ n >= 1
           /\ pc' \in {"while", "raise"}
                => (/\ n' = (IF P_d' < power THEN n + 1 ELSE n - 1)
                    /\ (pc' = "raise") = (n' = 0)))]_vars

\* C4 witness: the search stepped up and later down to 0, and raised.
C4_Witness == pc = "raise" /\ n = 0 /\ cycle_num >= 3

\* C5: in a cycle that does not return at the closeness test, the call
\* returns n through the convergence exit exactly when n equals the recorded
\* max_n (resp. min_n) and the cycle is at least m later than max_n_cycle
\* (resp. min_n_cycle).
C5_Convergence ==
  [][(IsCycleStep /\ pc' # "return_close")
       => ((pc' = "return_converged" /\ ret' = Returned(n) /\ n' = n)
            = (\/ (n = max_n /\ cycle_num' - max_n_cycle >= m)
               \/ (n = min_n /\ cycle_num' - min_n_cycle >= m)))]_vars

\* C5 witness: the search recorded a new extreme, and later returned through
\* the convergence exit with a look-back of at least one cycle.
C5_Witness ==
  /\ pc = "return_converged"
  /\ m >= 1
  /\ max_n > min_n

(* --------------------------- claims: mk_z ------------------------------ *)

\* Z is a number with a sign: finite or infinite, not nan.
ZSign(z) == IF z.kind = "nan" THEN "nan" ELSE Sign(z.num)

IsZeroZ(z) == z.kind = "finite" /\ z.num = 0

\* C6 (as stated): for Var(S) > 0, Z has the sign of S whenever S # 0, for
\* S = 1 and S = -1 too, and Z is exactly 0 when S = 0.
C6_SignOfZ ==
  (call.op = "mk_z" /\ var_s.num > 0)
    => (/\ s # 0 => ZSign(call.ret[1]) = Sign(s)
        /\ s = 0 => IsZeroZ(call.ret[1]))

\* C6 (amended): for Var(S) > 0, Z is finite and has the sign of S whenever
\* |S| >= 2; Z is exactly 0 for S = 1 and S = -1, which the continuity
\* correction moves onto 0; and Z is exactly 0 when S = 0, whatever Var(S).
C6_SignOfZ_Amended ==
  call.op = "mk_z"
    => (/\ (var_s.num > 0 /\ Abs(s) >= 2)
             => (call.ret[1].kind = "finite" /\ ZSign(call.ret[1]) = Sign(s))
        /\ (var_s.num > 0 /\ Abs(s) = 1) => IsZeroZ(call.ret[1])
        /\ s = 0 => IsZeroZ(call.ret[1]))

\* C6 witness: mk_z was applied to S = -1 with a positive variance.
C6_Witness == call.op = "mk_z" /\ s = -1 /\ var_s.num > 0 /\ call.ret # None

\* C7 (as stated): called with Var(S) <= 0 and S # 0, mk_z raises and returns
\* no value.
C7_RaisesOnBadVariance ==
  (call.op = "mk_z" /\ var_s.num <= 0 /\ s # 0)
    => (call.exc # "" /\ call.ret = None)

(* ----------------------- claims: score engine -------------------------- *)

RECURSIVE SumOver(_, _)
\* The sum of f[v] over the v in S.
SumOver(f, S) ==
  IF S = {} THEN 0
  ELSE LET v == CHOOSE w \in S : TRUE IN f[v] + SumOver(f, S \ {v})

\* The number of positions of x that hold v.
Occurrences(v) == Cardinality({i \in DOMAIN x : x[i] = v})

\* n(n-1)(2n+5) less q(q-1)(2q+5) for every value that occurs q >= 2 times.
TieCorrected18 ==
  LET len == Len(x)
      tied == {v \in Values : Occurrences(v) >= 2}
      corr == [v \in tied |->
                 Occurrences(v) * (Occurrences(v) - 1) * (2 * Occurrences(v) + 5)]
  IN  len * (len - 1) * (2 * len + 5) - SumOver(corr, tied)

NoTies == \A i, j \in DOMAIN x : i # j => x[i] # x[j]

\* C8: 18 * Var(S) is n(n-1)(2n+5) less the tie-group terms; with no repeated
\* value Var(S) is n(n-1)(2n+5)/18; for [1,1,2,3,3,3] it is (510-84)/18.
C8_ScoreVariance ==
  call.op = "mk_score_variance"
    => LET v == call.ret[1]
           len == Len(x)
       IN  /\ 18 * v.num = TieCorrected18 * v.den
           /\ NoTies => RatEq(v, Rat(len * (len - 1) * (2 * len + 5), 18))
           /\ x = <<1, 1, 2, 3, 3, 3>> => RatEq(v, Rat(510 - 84, 18))

\* C8 witness: the variance of [1,1,2,3,3,3] was computed.
C8_Witness == call.op = "mk_score_variance" /\ x = <<1, 1, 2, 3, 3, 3>>

\* The pairs of positions i < j of x.
Pairs == {p \in (DOMAIN x) \X (DOMAIN x) : p[1] < p[2]}

SeasonSeries(k, period) == Slice(x, k, period)

\* C10 (as stated): seasonal_kendall does not raise, seasons of fewer than two
\* observations included, and hands mk_z the sum over the seasons of the score
\* and of the score variance of each season's own sub-series.
C10_SeasonalSums ==
  call.op = "seasonal_kendall"
    => LET seasons == 0..(call.period - 1)
           S_k == [k \in seasons |-> mk_score(SeasonSeries(k, call.period))]
           V_k == [k \in seasons |-> mk_score_variance(SeasonSeries(k, call.period)).num]
       IN  /\ call.exc = ""
           /\ call.handed # None
           /\ call.handed[1] = SumOver(S_k, seasons)
           /\ RatEq(call.handed[2], Rat(SumOver(V_k, seasons), 18))

(* ------------------- claims: score variance, sign ---------------------- *)

\* C11: Var(S) is never negative, and it is exactly 0 for a series of fewer
\* than two observations and for a series of one repeated value.
C11_VarianceNonNegative ==
  call.op = "mk_score_variance"
    => LET v == call.ret[1]
       IN  /\ v.den > 0
           /\ v.num >= 0
           /\ Len(x) < 2 => v.num = 0
           /\ (\A i, j \in DOMAIN x : x[i] = x[j]) => v.num = 0

\* C11 witness: the variance of four equal observations was computed.
C11_Witness ==
  call.op = "mk_score_variance" /\ x = <<2, 2, 2, 2>> /\ call.ret[1].num = 0

(* ---------------- claims: check_num_samples bookkeeping ---------------- *)

SetMax(S) == CHOOSE v \in S : \A w \in S : w <= v
SetMin(S) == CHOOSE v \in S : \A w \in S : v <= w

\* The values of n that the cycles so far ran with; the first is the initial n.
VisitedN == {history[k].n : k \in DOMAIN history}

\* The last cycle that ran with n = v.
LastVisit(v) == SetMax({k \in DOMAIN history : history[k].n = v})

\* C12 (as stated): once a cycle has run, max_n is the largest and min_n the
\* smallest n that a cycle ran with, and max_n_cycle / min_n_cycle are the
\* last cycles that ran with those values.
C12_Extremes ==
  cycle_num >= 1
    => (/\ max_n = SetMax(VisitedN)
        /\ min_n = SetMin(VisitedN)
        /\ max_n_cycle = LastVisit(max_n)
        /\ min_n_cycle = LastVisit(min_n))

\* Cycle k got past the closeness test with its P_d within tol of best_P_d:
\* the only cycles in which an extreme can be recorded.
Records(k) ==
  ~history[k].close /\ Abs(history[k].best - history[k].P_d) < tol

\* The initial n and the n of the cycles that could record an extreme.
RecordedN == {history[1].n} \cup {history[k].n : k \in {j \in DOMAIN history : Records(j)}}

\* The first cycle that ran with n = v and was the first cycle or a recording one.
FirstRecord(v) ==
  SetMin({k \in DOMAIN history : history[k].n = v /\ (k = 1 \/ Records(k))})

\* C12 (amended): once a cycle has run, max_n is the largest and min_n the
\* smallest n among the initial n and the n of the cycles that got past the
\* closeness test with P_d within tol of best_P_d; max_n_cycle / min_n_cycle
\* are the first such cycles that ran with those values (1 for the initial n).
C12_Extremes_Amended ==
  cycle_num >= 1
    => (/\ max_n = SetMax(RecordedN)
        /\ min_n = SetMin(RecordedN)
        /\ max_n_cycle = FirstRecord(max_n)
        /\ min_n_cycle = FirstRecord(min_n))

\* C12 witness: a new largest n was recorded in a later cycle, a still larger
\* n was run without being recorded, and the recorded one was run again.
C12_Witness ==
  /\ cycle_num >= 3
  /\ max_n > history[1].n
  /\ max_n < SetMax(VisitedN)
  /\ max_n_cycle < LastVisit(max_n)

\* C13 (as stated): min_diff_P_d_and_power is |best_P_d - power| throughout,
\* no cycle increases it, and after each cycle it is at most |P_d - power| for
\* every P_d computed so far.
C13_BestEstimate ==
  [][/\ min_diff_P_d_and_power = Abs(best_P_d - power)
     /\ min_diff_P_d_and_power' = Abs(best_P_d' - power)
     /\ min_diff_P_d_and_power' <= min_diff_P_d_and_power
     /\ \A k \in DOMAIN history' :
          min_diff_P_d_and_power' <= Abs(history'[k].P_d - power)]_vars

\* C13 (amended): min_diff_P_d_and_power is |best_P_d - power| throughout, no
\* cycle increases it, and after each cycle it is at most |P_d - power| for
\* every P_d computed so far by a cycle that got past the closeness test; the
\* cycle that returns there returns before the best estimate is updated.
C13_BestEstimate_Amended ==
  [][/\ min_diff_P_d_and_power = Abs(best_P_d - power)
     /\ min_diff_P_d_and_power' = Abs(best_P_d' - power)
     /\ min_diff_P_d_and_power' <= min_diff_P_d_and_power
     /\ \A k \in DOMAIN history' :
          ~history'[k].close
            => min_diff_P_d_and_power' <= Abs(history'[k].P_d - power)]_vars

\* C13 witness: the estimate improved on the initial one, a later cycle was
\* worse, and the call then returned at the closeness test with a P_d closer
\* to power than the best estimate kept.
C13_Witness ==
  /\ pc = "return_close"
  /\ cycle_num >= 3
  /\ min_diff_P_d_and_power < Abs(0 - power)
  /\ \E k \in DOMAIN history :
       ~history[k].close /\ Abs(history[k].P_d - power) > min_diff_P_d_and_power
  /\ Abs(P_d - power) < min_diff_P_d_and_power

====
